---------------------------- MODULE Spec2Model ----------------------------
(***************************************************************************)
(* yummy-donut: a torus point cloud, rotated every frame and rasterised    *)
(* with a depth buffer into a terminal-sized glyph buffer.                 *)
(*                                                                         *)
(* Two programs live in the repository: src/unnamed/part_000 (the whole    *)
(* pipeline) and src/torus.cpp (an earlier revision: same sampler, rotate  *)
(* and sort, but render_mesh is an empty stub that main never calls).      *)
(*                                                                         *)
(* float values are modelled in fixed point: the integer v stands for the  *)
(* real v / SCALE.  Products and quotients are rounded down to the grid,   *)
(* where the machine rounds to the nearest float.                          *)
(***************************************************************************)
EXTENDS Integers, Sequences, FiniteSets

\* -------------------------------------------------------------- bounds
\* Largest NUM_POINTS (grid samples per axis) explored.
MaxNumPoints == 4
\* Largest ws_row / ws_col the terminal reports.
MaxDim == 2
\* Iterations of main's while (true) explored.
MaxFrames == 2
\* Longest point collection handed to render_mesh on its own.
MaxPoints == 3

\* ---------------------------------------------------- float arithmetic
\* Resolution of the fixed-point stand-in for float.
SCALE == 1000

FMul(a, b) == (a * b) \div SCALE
FDiv(a, b) == (a * SCALE) \div b
FromInt(i) == i * SCALE
\* std::floor followed by static_cast<int>
FloorToInt(v) == v \div SCALE
\* static_cast<int>(float): truncation toward zero
TruncToInt(v) == IF v >= 0 THEN v \div SCALE ELSE -((-v) \div SCALE)

RECURSIVE ISqrtIn(_, _, _)
ISqrtIn(n, lo, hi) ==
    IF lo >= hi THEN lo
    ELSE LET mid == (lo + hi + 1) \div 2
         IN  IF mid * mid <= n THEN ISqrtIn(n, mid, hi)
                               ELSE ISqrtIn(n, lo, mid - 1)
\* sqrt of a non-negative value
FSqrt(v) == ISqrtIn(v * SCALE, 0, IF v * SCALE < 46340 THEN v * SCALE ELSE 46340)

\* ------------------------------------------------------------- state
VARIABLES
    prog,            \* which of the two programs runs
    MAJOR_RADIUS,    \* compile-time parameters, fixed through a behaviour
    MINOR_RADIUS,
    NUM_POINTS,
    pc,              \* position in main / init_mesh / render_mesh
    ioctl_ok,        \* whether the TIOCGWINSZ query succeeded
    term_rows,       \* w.ws_row
    term_cols,       \* w.ws_col
    gi, gj,          \* init_mesh: loop counters i, j
    x, y,            \* init_mesh: locals x, y of the last grid sample
    points,          \* the point collection
    screen,          \* render_mesh: glyph buffer
    depth,           \* render_mesh: depth buffer
    k,               \* render_mesh: position of the point loop (1-based)
    pr, pcol,        \* render_mesh: presentation counters r, c
    out,             \* what the current frame has written to std::cout
    reads,           \* indices of screen read by the presentation loop
    access,          \* "ok", or "out_of_range" after an access outside a vector
    iters,           \* completed iterations of the while loop
    init_calls,      \* number of calls of init_mesh
    stage_log,       \* stages run in the current iteration, in order
    rotated          \* a rotation has happened since the last presentation

vars == <<prog, MAJOR_RADIUS, MINOR_RADIUS, NUM_POINTS, pc, ioctl_ok,
          term_rows, term_cols, gi, gj, x, y, points, screen, depth, k,
          pr, pcol, out, reads, access, iters, init_calls, stage_log, rotated>>

\* ------------------------------------------------------- parameters
Programs == {"part_000", "torus"}
\* <<MAJOR_RADIUS, MINOR_RADIUS>>: the reference 0.6 / 0.2, and r = R, r > R
Radii == {<<600, 200>>, <<200, 200>>, <<200, 600>>}
SYMBOLS == <<"LIGHT_SHADE", "MEDIUM_SHADE", "DARK_SHADE", "FULL_BLOCK">>
BLANK == " "
MAX_X_Y == MAJOR_RADIUS + MINOR_RADIUS
\* sin(THETA), cos(THETA) for THETA = 0.1
S == 100
C == 995
ROT == [n \in 0..8 |->
          <<FMul(C, C),                      -FMul(C, S),                     S,
            FMul(S, C) + FMul(FMul(S, S), C), FMul(C, C) - FMul(FMul(S, S), S), -FMul(S, C),
            FMul(S, S) - FMul(FMul(C, C), S), FMul(S, C) + FMul(FMul(C, S), S), FMul(C, C)>>[n + 1]]
\* depth's initial value -1e9f; kept at -1e9 grid units, below every z the model holds
DEPTH_SENTINEL == -1000000000

\* ------------------------------------------------------ pure functions
convert_range(i, a, b, c, d) == FMul(FDiv(i - a, b - a), d - c) + c

\* mutant: the grid index taken one too far
mesh_to_value_shifted(i) ==
    convert_range(FromInt(i + 1), 0, FromInt(NUM_POINTS), -MAX_X_Y, MAX_X_Y)

mesh_to_value(i) ==
    convert_range(FromInt(i), 0, FromInt(NUM_POINTS), -MAX_X_Y, MAX_X_Y)

\* inner of calculate_pos_z
Inner(px, py) ==
    LET d == FSqrt(FMul(px, px) + FMul(py, py)) - MAJOR_RADIUS
    IN  FMul(MINOR_RADIUS, MINOR_RADIUS) - FMul(d, d)

NoneZ == [has_value |-> FALSE, value |-> 0]
\* mutant: inner == 0 rejected too
calculate_pos_z_strict(px, py) ==
    IF Inner(px, py) <= 0 THEN NoneZ
    ELSE [has_value |-> TRUE, value |-> FSqrt(Inner(px, py))]

calculate_pos_z(px, py) ==
    IF Inner(px, py) < 0 THEN NoneZ
    ELSE [has_value |-> TRUE, value |-> FSqrt(Inner(px, py))]

order_points(a, b) == a.z < b.z

rotate_point(point, arr) ==
    [x |-> FMul(point.x, arr[0]) + FMul(point.y, arr[1]) + FMul(point.z, arr[2]),
     y |-> FMul(point.x, arr[3]) + FMul(point.y, arr[4]) + FMul(point.z, arr[5]),
     z |-> FMul(point.x, arr[6]) + FMul(point.y, arr[7]) + FMul(point.z, arr[8])]

rotate_mesh(ps) == [n \in 1..Len(ps) |-> rotate_point(ps[n], ROT)]

\* The orders std::sort may leave: every permutation sorted by order_points
\* (std::sort is not stable, so points of equal z may land in any order).
RECURSIVE SortedFrom(_, _)
SortedFrom(s, rem) ==
    IF rem = {} THEN {<<>>}
    ELSE LET mins == {n \in rem : \A m \in rem : ~order_points(s[m], s[n])}
             reps == {n \in mins : \A m \in mins : s[m] = s[n] => n <= m}
         IN  UNION {{<<s[n]>> \o t : t \in SortedFrom(s, rem \ {n})} : n \in reps}
SortResults(s) == SortedFrom(s, 1..Len(s))


\* -------------------------------------------------------- render_mesh
Col(p) == FloorToInt(convert_range(p.x, -MAX_X_Y, MAX_X_Y, 0, FromInt(term_cols) - FromInt(1)))
Row(p) == FloorToInt(convert_range(p.y, -MAX_X_Y, MAX_X_Y, 0, FromInt(term_rows) - FromInt(1)))

\* mutant: the guard of `continue` without its upper limits
InBoundsNoUpper(col, row) == ~(col < 0 \/ row < 0)

\* the negation of the guard of `continue`
InBounds(col, row) == ~(col < 0 \/ col >= term_cols \/ row < 0 \/ row >= term_rows)

\* mutant: the row stride taken from the wrong dimension
CellIndexByRows(row, col) == row * term_rows + col

CellIndex(row, col) == row * term_cols + col

\* mutant: no depth test, the last writer wins
DepthTestNone(z, d) == TRUE
\* mutant: the comparison turned round
DepthTestInverted(z, d) == z < d

DepthTest(z, d) == z > d

\* mutant: the clamp to 3 left out
ShadeNoUpperClamp(z) ==
    LET norm  == FDiv(z + MAX_X_Y, FMul(FromInt(2), MAX_X_Y))
        shade == TruncToInt(FMul(norm, FromInt(4)))
    IN  IF shade < 0 THEN 0 ELSE shade

\* shade index of a point's z
Shade(z) ==
    LET norm  == FDiv(z + MAX_X_Y, FMul(FromInt(2), MAX_X_Y))
        shade == TruncToInt(FMul(norm, FromInt(4)))
        lo    == IF shade < 0 THEN 0 ELSE shade
    IN  IF lo > 3 THEN 3 ELSE lo

\* mutant: the glyph buffer filled with the first palette symbol
EmptyBufferShaded ==
    [screen |-> [n \in 0..(term_rows * term_cols - 1) |-> SYMBOLS[1]],
     depth  |-> [n \in 0..(term_rows * term_cols - 1) |-> DEPTH_SENTINEL],
     access |-> "ok"]

EmptyBuffer ==
    [screen |-> [n \in 0..(term_rows * term_cols - 1) |-> BLANK],
     depth  |-> [n \in 0..(term_rows * term_cols - 1) |-> DEPTH_SENTINEL],
     access |-> "ok"]

\* SYMBOLS[shade]; an index outside the array reads past it
Glyph(shade) == IF shade \in 0..3 THEN SYMBOLS[shade + 1] ELSE "OUT_OF_PALETTE"

\* One pass of the body of the point loop over buffer b.
RenderPointBody(b, p) ==
    IF ~InBounds(Col(p), Row(p)) THEN b
    ELSE LET idx == CellIndex(Row(p), Col(p))
         IN  IF idx \notin DOMAIN b.depth
               THEN [b EXCEPT !.access = "out_of_range"]
             ELSE IF DepthTest(p.z, b.depth[idx])
               THEN [b EXCEPT !.depth[idx] = p.z,
                              !.screen[idx] = Glyph(Shade(p.z))]
             ELSE b

\* The buffer the point loop leaves after the points ps, in this order.
RECURSIVE RenderLoop(_, _)
RenderLoop(b, ps) ==
    IF ps = <<>> THEN b ELSE RenderLoop(RenderPointBody(b, Head(ps)), Tail(ps))

\* ------------------------------------------------------------- main
Init ==
    /\ prog \in Programs
    /\ \E rr \in Radii : MAJOR_RADIUS = rr[1] /\ MINOR_RADIUS = rr[2]
    /\ NUM_POINTS \in 1..MaxNumPoints
    /\ pc = "ioctl"
    /\ ioctl_ok = FALSE
       \* part_000: winsize w{} is zeroed; torus.cpp: winsize w is left
       \* uninitialised (and never read)
    /\ IF prog = "part_000"
         THEN term_rows = 0 /\ term_cols = 0
         ELSE term_rows \in 0..MaxDim /\ term_cols \in 0..MaxDim
    /\ gi = 0 /\ gj = 0 /\ x = 0 /\ y = 0
    /\ points = <<>>
    /\ screen = <<>> /\ depth = <<>> /\ k = 1
    /\ pr = 0 /\ pcol = 0 /\ out = <<>> /\ reads = <<>>
    /\ access = "ok"
    /\ iters = 0 /\ init_calls = 0
    /\ stage_log = <<>>
    /\ rotated = FALSE

renderVars == <<screen, depth, k, pr, pcol, out, reads, access>>
meshVars == <<gi, gj, x, y>>
paramVars == <<prog, MAJOR_RADIUS, MINOR_RADIUS, NUM_POINTS>>
termVars == <<ioctl_ok, term_rows, term_cols>>

\* ioctl(STDOUT_FILENO, TIOCGWINSZ, &w); its return value is not looked at
Ioctl ==
    /\ pc = "ioctl"
    /\ \/ /\ ioctl_ok' = FALSE
          /\ UNCHANGED <<term_rows, term_cols>>
       \/ /\ ioctl_ok' = TRUE
          /\ term_rows' \in 0..MaxDim
          /\ term_cols' \in 0..MaxDim
    /\ pc' = "init_mesh"
    /\ UNCHANGED <<paramVars, meshVars, points, renderVars, iters, init_calls,
                   stage_log, rotated>>

InitMeshBegin ==
    /\ pc = "init_mesh"
    /\ points' = <<>>
    /\ gi' = 0 /\ gj' = 0
    /\ init_calls' = init_calls + 1
    /\ pc' = "init_loop"
    /\ UNCHANGED <<paramVars, termVars, x, y, renderVars, iters, stage_log, rotated>>

\* one pass of the body of the inner loop
InitMeshStep ==
    /\ pc = "init_loop"
    /\ gi < NUM_POINTS
    /\ x' = mesh_to_value(gi)
    /\ y' = mesh_to_value(gj)
    /\ LET z == calculate_pos_z(x', y')
       IN  points' = IF z.has_value
                       THEN points \o <<[x |-> x', y |-> y', z |-> z.value],
                                        [x |-> x', y |-> y', z |-> FMul(FromInt(-1), z.value)]>>
                       ELSE points
    /\ IF gj + 1 < NUM_POINTS
         THEN gj' = gj + 1 /\ gi' = gi
         ELSE gj' = 0 /\ gi' = gi + 1
    /\ UNCHANGED <<paramVars, termVars, pc, renderVars, iters, init_calls,
                   stage_log, rotated>>

InitMeshReturn ==
    /\ pc = "init_loop"
    /\ ~(gi < NUM_POINTS)
    /\ pc' = "rotate"
    /\ UNCHANGED <<paramVars, termVars, meshVars, points, renderVars, iters,
                   init_calls, stage_log, rotated>>

RotateMesh ==
    /\ pc = "rotate"
    /\ iters < MaxFrames
    /\ points' = rotate_mesh(points)
    /\ stage_log' = <<"rotate">>
    /\ rotated' = TRUE
    /\ pc' = "sort"
    /\ UNCHANGED <<paramVars, termVars, meshVars, renderVars, iters, init_calls>>

\* mutant: the loop closes right after the sort in both programs
AfterSortSkipsRender == "rotate"

\* what follows std::sort in main's loop
AfterSort == IF prog = "part_000" THEN "render_mesh" ELSE "rotate"

Sort ==
    /\ pc = "sort"
    /\ points' \in SortResults(points)
    /\ stage_log' = Append(stage_log, "sort")
    /\ pc' = AfterSort
    /\ iters' = IF AfterSort = "rotate" THEN iters + 1 ELSE iters
    /\ UNCHANGED <<paramVars, termVars, meshVars, renderVars, init_calls, rotated>>

RenderBegin ==
    /\ pc = "render_mesh"
    /\ screen' = EmptyBuffer.screen
    /\ depth' = EmptyBuffer.depth
    /\ k' = 1
    /\ out' = <<>> /\ reads' = <<>>
    /\ stage_log' = Append(stage_log, "rasterize")
    /\ pc' = "point_loop"
    /\ UNCHANGED <<paramVars, termVars, meshVars, points, pr, pcol, access,
                   iters, init_calls, rotated>>

RenderPoint ==
    /\ pc = "point_loop"
    /\ k <= Len(points)
    /\ LET b == RenderPointBody([screen |-> screen, depth |-> depth, access |-> access],
                                points[k])
       IN  screen' = b.screen /\ depth' = b.depth /\ access' = b.access
    /\ k' = k + 1
    /\ UNCHANGED <<paramVars, termVars, meshVars, points, pc, pr, pcol, out, reads,
                   iters, init_calls, stage_log, rotated>>

\* std::cout << "\033[H"
PresentHome ==
    /\ pc = "point_loop"
    /\ ~(k <= Len(points))
    /\ out' = <<"ESC[H">>
    /\ pr' = 0 /\ pcol' = 0
    /\ stage_log' = Append(stage_log, "present")
    /\ pc' = "present"
    /\ UNCHANGED <<paramVars, termVars, meshVars, points, screen, depth, k, reads,
                   access, iters, init_calls, rotated>>

PresentCell ==
    /\ pc = "present"
    /\ pr < term_rows
    /\ pcol < term_cols
    /\ LET idx == pr * term_cols + pcol
       IN  /\ reads' = Append(reads, idx)
           /\ IF idx \in DOMAIN screen
                THEN out' = Append(out, screen[idx]) /\ access' = access
                ELSE out' = out /\ access' = "out_of_range"
    /\ pcol' = pcol + 1
    /\ UNCHANGED <<paramVars, termVars, meshVars, points, pc, screen, depth, k, pr,
                   iters, init_calls, stage_log, rotated>>

PresentNewline ==
    /\ pc = "present"
    /\ pr < term_rows
    /\ ~(pcol < term_cols)
    /\ out' = Append(out, "\n")
    /\ pr' = pr + 1
    /\ pcol' = 0
    /\ UNCHANGED <<paramVars, termVars, meshVars, points, pc, screen, depth, k, reads,
                   access, iters, init_calls, stage_log, rotated>>

\* std::cout.flush() and the return to main's loop
PresentFlush ==
    /\ pc = "present"
    /\ ~(pr < term_rows)
    /\ pc' = "rotate"
    /\ iters' = iters + 1
    /\ rotated' = FALSE
    /\ UNCHANGED <<paramVars, termVars, meshVars, points, renderVars, init_calls,
                   stage_log>>

Next ==
    \/ Ioctl \/ InitMeshBegin \/ InitMeshStep \/ InitMeshReturn
    \/ RotateMesh \/ Sort
    \/ RenderBegin \/ RenderPoint
    \/ PresentHome \/ PresentCell \/ PresentNewline \/ PresentFlush

Spec == Init /\ [][Next]_vars

\* --------------------------------------------- render_mesh on its own
Pt(px, py, pz) == [x |-> px, y |-> py, z |-> pz]

\* Points handed to render_mesh: cells at both corners, a tie in z between
\* two different points of one cell, z outside [-MAX_X_Y, MAX_X_Y], and
\* projections off each edge of the terminal.
RenderInputs ==
    { Pt(-800, -800, -1200), Pt(-800, -800, 0), Pt(-700, -800, 0),
      Pt(800, 800, 800),
      Pt(2400, 0, 900), Pt(-900, 800, -400), Pt(0, -900, 100), Pt(0, 2400, 500) }

SeqsUpTo(D, n) == UNION {[1..m -> D] : m \in 0..n}

\* render_mesh entered with any point collection, in any order, and any
\* terminal size; the parameters are the reference ones.
InitRender ==
    /\ prog = "part_000"
    /\ MAJOR_RADIUS = 600 /\ MINOR_RADIUS = 200
    /\ NUM_POINTS = MaxNumPoints
    /\ pc = "render_mesh"
    /\ ioctl_ok = TRUE
    /\ term_rows \in 0..MaxDim /\ term_cols \in 0..MaxDim
    /\ gi = NUM_POINTS /\ gj = 0 /\ x = 0 /\ y = 0
    /\ points \in SeqsUpTo(RenderInputs, MaxPoints)
    /\ screen = <<>> /\ depth = <<>> /\ k = 1
    /\ pr = 0 /\ pcol = 0 /\ out = <<>> /\ reads = <<>>
    /\ access = "ok"
    /\ iters = 0 /\ init_calls = 1
    /\ stage_log = <<"rotate", "sort">>
    /\ rotated = TRUE

NextRender ==
    \/ RenderBegin \/ RenderPoint
    \/ PresentHome \/ PresentCell \/ PresentNewline \/ PresentFlush

SpecRender == InitRender /\ [][NextRender]_vars


\* ------------------------------------------------------------ claims
\* What the claims speak of, stated apart from the code's own tests.
Projects(p) == Col(p) \in 0..(term_cols - 1) /\ Row(p) \in 0..(term_rows - 1)
CellOf(p) == Row(p) * term_cols + Col(p)
Cells == 0..(term_rows * term_cols - 1)
Palette == {SYMBOLS[n] : n \in 1..4}
\* every order of the elements s[n], n \in rem
RECURSIVE OrdersOf(_, _)
OrdersOf(s, rem) ==
    IF rem = {} THEN {<<>>}
    ELSE UNION {{<<s[n]>> \o t : t \in OrdersOf(s, rem \ {n})} : n \in rem}
Perms(s) == OrdersOf(s, 1..Len(s))
SetMax(Z) == CHOOSE z \in Z : \A w \in Z : w <= z

\* C1: the glyph buffer the point loop leaves is the same for every traversal
\* order of the collection, the z-ascending orders std::sort may produce
\* among them; with two in-bounds points of one cell and z_a > z_b the cell
\* ends with the shade of z_a whichever comes first.  Stated of the buffer
\* as the point loop leaves it (the presentation does not write to it).
C1_OrderIndependent ==
    (pc = "present" /\ pr = 0 /\ pcol = 0) =>
        /\ \A q \in Perms(points) : RenderLoop(EmptyBuffer, q).screen = screen
        /\ \A q \in SortResults(points) : RenderLoop(EmptyBuffer, q).screen = screen
        /\ \A a, b \in 1..Len(points) :
              ( /\ Len(points) = 2 /\ a # b
                /\ Projects(points[a]) /\ Projects(points[b])
                /\ CellOf(points[a]) = CellOf(points[b])
                /\ points[a].z > points[b].z )
              => screen[CellOf(points[a])] = Glyph(Shade(points[a].z))

\* C1 witness: the nearer of two points of one cell was processed first, so
\* the order differs from every sorted one, and the loop has finished.
C1_Witness ==
    /\ pc = "present" /\ Len(points) = 2
    /\ Projects(points[1]) /\ Projects(points[2])
    /\ CellOf(points[1]) = CellOf(points[2])
    /\ points[1].z > points[2].z
    /\ points \notin SortResults(points)
    /\ Glyph(Shade(points[1].z)) # Glyph(Shade(points[2].z))

\* The z of the points among the first n that project in bounds to cell c.
ZsOfCell(c, n) == {points[m].z : m \in {l \in 1..n : Projects(points[l]) /\ CellOf(points[l]) = c}}

C3_Inv ==
    pc \in {"point_loop", "present"} =>
        \A c \in Cells :
            /\ depth[c] = IF ZsOfCell(c, k - 1) = {} THEN DEPTH_SENTINEL
                          ELSE SetMax(ZsOfCell(c, k - 1))
            /\ (screen[c] = BLANK) <=> (depth[c] = DEPTH_SENTINEL)

C3_Step ==
    (pc = "point_loop" /\ pc' = "point_loop") =>
        /\ \A c \in Cells : depth'[c] >= depth[c]
        /\ (k <= Len(points) /\ Projects(points[k])
              /\ ~(points[k].z > depth[CellOf(points[k])]))
           => (depth' = depth /\ screen' = screen)

\* C3: through the point loop depth[c] is the largest z of the points
\* processed so far that project in bounds to cell c (the sentinel if none),
\* depth never decreases, a point not strictly nearer than depth[c] changes
\* neither array, and a glyph is blank exactly when its depth is the sentinel.
C3_DepthIsMax == [](C3_Inv) /\ [][C3_Step]_vars

\* C3 witness: a point that lost the depth test has been processed after a
\* nearer point of the same cell.
C3_Witness ==
    /\ pc = "point_loop" /\ k = 3
    /\ Projects(points[1]) /\ Projects(points[2])
    /\ CellOf(points[1]) = CellOf(points[2])
    /\ points[2].z < points[1].z
    /\ depth[CellOf(points[1])] = points[1].z


\* C5: a point whose projected column or row lies outside
\* [0, cols-1] x [0, rows-1] is discarded: the step that processes it
\* changes no cell of depth or screen and touches no memory outside them.
C5_OutOfBoundsDiscarded ==
    [][ (pc = "point_loop" /\ k <= Len(points) /\ ~Projects(points[k]))
          => (depth' = depth /\ screen' = screen /\ access' = "ok" /\ k' = k + 1) ]_vars

\* C5 witness: on a 2 x 2 terminal a point off the right edge has been
\* processed after a point that was drawn.
C5_Witness ==
    /\ pc = "point_loop" /\ k = 3
    /\ term_rows = 2 /\ term_cols = 2
    /\ Projects(points[1])
    /\ ~Projects(points[2]) /\ Col(points[2]) >= term_cols /\ Row(points[2]) \in 0..1
    /\ \E c \in Cells : screen[c] # BLANK

\* C8: the shade index of every z is in {0,1,2,3}, also below -(R+r) and at
\* or above R+r, and does not decrease as z grows (for the z of the points
\* handed in and, evaluated once per terminal size, on a grid over
\* [-2(R+r), 2(R+r)]); every non-blank cell of the glyph buffer holds one of
\* the four palette symbols.
C8_ShadeInPalette ==
    /\ \A n \in 1..Len(points) : Shade(points[n].z) \in 0..3
    /\ \A n, m \in 1..Len(points) :
          points[n].z <= points[m].z => Shade(points[n].z) <= Shade(points[m].z)
    /\ \A c \in DOMAIN screen : screen[c] # BLANK => screen[c] \in Palette
    /\ (pc = "render_mesh" /\ points = <<>>) =>
          \A n \in 0..64 :
              LET z == -2 * MAX_X_Y + 50 * n
              IN  Shade(z) \in 0..3 /\ Shade(z) <= Shade(z + 50)

\* C8 witness: points with z below -(R+r) and with z = R+r have both been
\* drawn, into different cells, as the lightest and the densest symbol.
C8_Witness ==
    /\ pc = "present"
    /\ \E c, d \in Cells :
          /\ depth[c] < -MAX_X_Y /\ screen[c] = SYMBOLS[1]
          /\ depth[d] >= MAX_X_Y /\ screen[d] = SYMBOLS[4]

NewlinesIn(s) == Cardinality({n \in 1..Len(s) : s[n] = "\n"})

\* C10: for every terminal size, 0 x 0 included, and every point, the
\* accesses to depth and screen stay inside 0 .. rows*cols-1; the
\* presentation loop reads the cells 0, 1, ..., rows*cols-1 once each in
\* that order (row by row, left to right) and writes one line break per row.
C10_AccessesInRange ==
    /\ access = "ok"
    /\ \A n \in 1..Len(reads) : reads[n] = n - 1 /\ reads[n] \in Cells
    /\ pc = "present" =>
          /\ Len(reads) = pr * term_cols + pcol
          /\ NewlinesIn(out) = pr
          /\ Len(out) = 1 + Len(reads) + pr
          /\ \A n \in 1..Len(reads) :
                out[1 + n + (reads[n] \div term_cols)] = screen[reads[n]]
    /\ (pc = "rotate" /\ iters > 0 /\ prog = "part_000") =>
          /\ Len(reads) = term_rows * term_cols
          /\ NewlinesIn(out) = term_rows

\* C10 witness: a frame of a 2 x 1 terminal, with a drawn cell in its
\* second row, has been presented whole.
C10_Witness ==
    /\ pc = "rotate" /\ iters > 0
    /\ term_rows = 2 /\ term_cols = 1
    /\ reads = <<0, 1>>
    /\ screen[1] # BLANK
    /\ out = <<"ESC[H", screen[0], "\n", screen[1], "\n">>


\* --------------------------------------------------- claims on main
StartupPcs == {"ioctl", "init_mesh", "init_loop"}
LoopPcs == {"rotate", "sort", "render_mesh", "point_loop", "present"}
\* number of grid pairs init_mesh has been through, and the last one's i, j
Sampled == gi * NUM_POINTS + gj
LastI == (Sampled - 1) \div NUM_POINTS
LastJ == (Sampled - 1) % NUM_POINTS

\* The collection after the first n grid pairs, in the order of the loops.
RECURSIVE ExpectedMesh(_)
ExpectedMesh(n) ==
    IF n = 0 THEN <<>>
    ELSE LET px    == mesh_to_value((n - 1) \div NUM_POINTS)
             py    == mesh_to_value((n - 1) % NUM_POINTS)
             inner == Inner(px, py)
         IN  ExpectedMesh(n - 1) \o
             (IF inner >= 0 THEN <<Pt(px, py, FSqrt(inner)), Pt(px, py, -FSqrt(inner))>>
                            ELSE <<>>)

\* C2: every grid pair (i, j) adds exactly two points (same x and y,
\* z = +sqrt(inner) and -sqrt(inner), coincident when inner = 0) when
\* inner >= 0 and none when inner < 0; the size is even and at most 2*N^2.
C2_TwoPointsPerSample ==
    /\ pc = "init_loop" => points = ExpectedMesh(Sampled)
    /\ (pc = "rotate" /\ iters = 0) => points = ExpectedMesh(NUM_POINTS * NUM_POINTS)
    /\ pc \notin {"ioctl", "init_mesh"} =>
          /\ Len(points) % 2 = 0
          /\ Len(points) <= 2 * NUM_POINTS * NUM_POINTS

\* C2 witness: init_mesh has returned after samples with inner < 0, with
\* inner = 0 (two coincident points) and with inner > 0.
C2_Witness ==
    /\ pc = "rotate" /\ iters = 0
    /\ \E i, j \in 0..(NUM_POINTS - 1) : Inner(mesh_to_value(i), mesh_to_value(j)) < 0
    /\ \E n \in 1..(Len(points) - 1) :
          n % 2 = 1 /\ points[n] = points[n + 1] /\ points[n].z = 0
    /\ \E n \in 1..(Len(points) - 1) :
          n % 2 = 1 /\ points[n].z > 0 /\ points[n + 1].z = -points[n].z

SizeUnavailable == ~ioctl_ok \/ term_rows <= 0 \/ term_cols <= 0

\* C4: when the terminal size is unavailable or non-positive the program
\* stops at startup: it never enters the loop and never renders into a
\* zero-sized buffer.
C4_FatalAtStartup ==
    /\ (pc # "ioctl" /\ SizeUnavailable) => pc \notin LoopPcs
    /\ pc \in {"point_loop", "present"} => term_rows * term_cols > 0

OnlyBlank(o) == \A n \in 1..Len(o) : o[n] \in {"ESC[H", BLANK, "\n"}

\* C6 as stated: with r >= R init_mesh returns no point and every frame
\* is blank.
C6_EmptyWhenMinorNotSmaller ==
    (MINOR_RADIUS >= MAJOR_RADIUS /\ pc \notin StartupPcs) =>
        (points = <<>> /\ OnlyBlank(out))

\* C6 amended: with r >= R and an even NUM_POINTS the sample at the origin
\* has inner = r^2 - R^2 >= 0, so the collection is not empty; when no grid
\* sample has inner >= 0 the collection is empty, and with an empty
\* collection every presented frame consists only of blank cells.
C6_EmptyMeshBlankFrame ==
    /\ (MINOR_RADIUS >= MAJOR_RADIUS /\ NUM_POINTS % 2 = 0 /\ pc \notin StartupPcs) =>
          /\ Len(points) >= 2
          /\ Inner(0, 0) >= 0
          /\ mesh_to_value(NUM_POINTS \div 2) = 0
    /\ (pc = "rotate" /\ iters = 0) =>
          ((points = <<>>) <=>
             \A i, j \in 0..(NUM_POINTS - 1) : Inner(mesh_to_value(i), mesh_to_value(j)) < 0)
    /\ points = <<>> =>
          /\ OnlyBlank(out)
          /\ \A c \in DOMAIN screen : screen[c] = BLANK

\* C6 witness: with r >= R and one sample per axis the collection is empty
\* and a whole blank frame of a 2 x 2 terminal has been presented.
C6_Witness ==
    /\ MINOR_RADIUS >= MAJOR_RADIUS
    /\ points = <<>>
    /\ pc = "rotate" /\ iters > 0
    /\ term_rows = 2 /\ term_cols = 2
    /\ out = <<"ESC[H", BLANK, BLANK, "\n", BLANK, BLANK, "\n">>

FullPipeline == <<"rotate", "sort", "rasterize", "present">>
ExpectedStages == IF prog = "part_000" THEN FullPipeline ELSE <<"rotate", "sort">>
IsPrefix(s, t) == Len(s) <= Len(t) /\ \A n \in 1..Len(s) : s[n] = t[n]

C7_Common ==
    /\ pc \in {"ioctl", "init_mesh"} => init_calls = 0
    /\ pc \in {"init_loop"} \cup LoopPcs => init_calls = 1
    /\ pc \in StartupPcs => (iters = 0 /\ stage_log = <<>> /\ out = <<>>)
    /\ pc = "present" => rotated
    /\ pc \in StartupPcs \cup LoopPcs

C9_SpansClosedRange ==
    (pc = "init_loop" /\ Sampled > 0) =>
        /\ LastI = 0 => x = -MAX_X_Y
        /\ LastI = NUM_POINTS - 1 => x = MAX_X_Y
        /\ x = -mesh_to_value(NUM_POINTS - 1 - LastI)

\* The fixed-point value lies at most 3 grid units under the exact
\* (2i - N) * (R+r) / N.
NearExact(v, i) ==
    /\ v * NUM_POINTS <= (2 * i - NUM_POINTS) * MAX_X_Y
    /\ v * NUM_POINTS >= (2 * i - NUM_POINTS) * MAX_X_Y - 3 * NUM_POINTS

\* C9 amended: the mapping is linear from [0, N] onto [-(R+r), R+r]: index 0
\* maps to -(R+r) and index N, which is never sampled, to +(R+r); a sampled
\* index i maps to (R+r)(2i - N)/N, the largest one N-1 to (R+r)(1 - 2/N),
\* below +(R+r); the samples are not symmetric about 0 (a sample and its
\* mirror index sum to -2(R+r)/N).
C9_SpansHalfOpenRange ==
    (pc = "init_loop" /\ Sampled > 0) =>
        /\ LastI = 0 => x = -MAX_X_Y
        /\ LastJ = 0 => y = -MAX_X_Y
        /\ NearExact(x, LastI) /\ NearExact(y, LastJ)
        /\ x < MAX_X_Y /\ y < MAX_X_Y
        /\ mesh_to_value(NUM_POINTS) = MAX_X_Y
        /\ x + mesh_to_value(NUM_POINTS - 1 - LastI) < 0

\* C9 witness: the last row of a grid of at least two samples per axis is
\* being sampled, at x = (R+r)(1 - 2/N) exactly.
C9_Witness ==
    /\ pc = "init_loop" /\ Sampled > 0
    /\ NUM_POINTS = 4 /\ LastI = NUM_POINTS - 1
    /\ 2 * x = MAX_X_Y

====
